---- MODULE Spec2Model ----
(***************************************************************************)
(* DevLinker backend, routes/user.js: the swipe-to-match protocol over the *)
(* ConnectionRequest collection, with the feed and connections views.      *)
(*                                                                         *)
(* Every request handler is an async function; the event loop may switch   *)
(* to another handler at each `await` (one store round trip).  A handler   *)
(* is therefore modelled as a process whose steps are the code between two *)
(* awaits, each step doing exactly one store operation.                    *)
(***************************************************************************)
EXTENDS Integers, Sequences, FiniteSets, Bags, TLC

\* ---------------------------------------------------------------- bounds
NumUsers == 2
MaxRequests == 3
MaxQuery == 2
MaxCandidates == 52

\* ------------------------------------------------------------- constants
\* The User collection: never written by these routes.
User == 1 .. NumUsers
\* req.body.toUserId absent (falsy): the `!toUserId` test is true.
Missing == 0
\* A well-formed identifier that names no user: User.findById gives null.
NoSuchUser == NumUsers + 1
\* What a client can send as toUserId.
ToUserIds == User \cup {Missing, NoSuchUser}

Null == "null"
\* Boolean(x) of the source, as the JSON text of the flag; a response without
\* the key `matched` carries Null.
Boolean(x) == IF x # Null THEN "true" ELSE "false"
Status == {"interested", "ignored", "accepted"}
Pair == User \X User

\* --------------------------------------------------------------- state
\* ConnectionRequest[<<from, to>>] is the sequence, in insertion order, of the
\* status fields of the documents with that fromUserId and toUserId.
\* handlers is the bag of the handlers in flight, each with its position and
\* its local variables (two requests of one client may be in the same position).
\* log is the sequence of the responses sent to swipes so far, in the order
\* sent.  view is the response most recently sent by a query view.
\* received counts the requests received so far.
VARIABLES ConnectionRequest, handlers, log, view, received
vars == <<ConnectionRequest, handlers, log, view, received>>

NoView == [route |-> "none", loggedInUser |-> 0, data |-> <<>>,
           page |-> 0, limit |-> 0, hasMore |-> FALSE]

\* A value of the query string: <<>> when the parameter is absent or does not
\* start with a number, <<n>> when it reads as the integer n.
QueryValues == {<<>>} \cup {<<n>> : n \in 0 .. MaxQuery}

\* As Started, without the branch `if (existing)` of swipe-right.
StartedWithoutExistingBranch(route, a, t, existing) ==
    [route |-> route, loggedInUser |-> a, toUserId |-> t,
     pc |-> IF route = "swipe-left" THEN "save" ELSE "findReciprocalInterested",
     existing |-> existing, reciprocalInterested |-> Null]

\* A handler as it is after the first query on ConnectionRequest.
Started(route, a, t, existing) ==
    [route |-> route, loggedInUser |-> a, toUserId |-> t,
     pc |-> IF route = "swipe-left" THEN "save"
            ELSE IF existing # Null THEN "findReciprocal"
            ELSE "findReciprocalInterested",
     existing |-> existing, reciprocalInterested |-> Null]

Json(h, status, message, data, matched) ==
    [route |-> h.route, loggedInUser |-> h.loggedInUser, toUserId |-> h.toUserId,
     status |-> status, message |-> message, data |-> data, matched |-> matched]

\* ------------------------------------------------------- store operations
\* ConnectionRequest.findOne({fromUserId, toUserId}): the status of the first
\* matching document, or Null.
findOne(from, to) ==
    IF ConnectionRequest[<<from, to>>] = <<>> THEN Null
    ELSE Head(ConnectionRequest[<<from, to>>])

\* ConnectionRequest.findOne({fromUserId, toUserId, status: "interested"}).
findOneInterested(from, to) ==
    LET rows == SelectSeq(ConnectionRequest[<<from, to>>],
                          LAMBDA s : s = "interested")
    IN  IF rows = <<>> THEN Null ELSE Head(rows)

\* The store's constraint on the ordered pair: an insert fails with Conflict
\* when a document with the same (fromUserId, toUserId) exists.
\* As Conflict, for a store without the constraint.
ConflictNever(from, to) == FALSE
Conflict(from, to) == ConnectionRequest[<<from, to>>] # <<>>

\* new ConnectionRequest({fromUserId, toUserId, status}).save(), accepted.
Inserted(from, to, status) ==
    [ConnectionRequest EXCEPT ![<<from, to>>] = Append(@, status)]

\* ------------------------------------------------------------------ Init
Init ==
    /\ ConnectionRequest = [p \in Pair |-> <<>>]
    /\ handlers = EmptyBag
    /\ log = <<>>
    /\ view = NoView
    /\ received = 0

\* A handler sends its response and ends.
Respond(h, r) ==
    /\ handlers' = handlers (-) SetToBag({h})
    /\ log' = Append(log, r)
    /\ UNCHANGED <<view, received>>

\* A request is received.
Receive ==
    /\ received < MaxRequests
    /\ received' = received + 1

\* A handler moves on to its next await with its local variables as in h2.
Goto(h, h2) ==
    /\ handlers' = (handlers (-) SetToBag({h})) (+) SetToBag({h2})
    /\ UNCHANGED <<view, received>>

At(h, route, pc) ==
    /\ BagIn(h, handlers)
    /\ h.route = route
    /\ h.pc = pc

InFlight == BagToSet(handlers)

\* ------------------------------------------------------------ swipe-left
\* As SwipeLeft, without the test `if (!toUserId)`: findById(undefined) gives
\* null and the handler answers 404.
SwipeLeftWithoutRequiredTest(a, t) ==
    /\ Receive
    /\ UNCHANGED <<ConnectionRequest, view>>
    /\ LET existing == IF t \in User THEN findOne(a, t) ELSE Null
           h == Started("swipe-left", a, t, existing)
       IN  IF t \notin User
           THEN /\ log' = Append(log, Json(h, 404, "User not found", Null, Null))
                /\ UNCHANGED handlers
           ELSE IF existing # Null
           THEN /\ log' = Append(log, Json(h, 200, "Already swiped", existing, Null))
                /\ UNCHANGED handlers
           ELSE /\ handlers' = handlers (+) SetToBag({h})
                /\ UNCHANGED log

\* The request arrives, toUserId is validated, User.findById(toUserId) and
\* then ConnectionRequest.findOne are awaited.  User is never written, so
\* findById returns the same at any moment and is taken in the step of the
\* findOne that follows it.
SwipeLeft(a, t) ==
    /\ Receive
    /\ UNCHANGED <<ConnectionRequest, view>>
    /\ LET existing == IF t \in User THEN findOne(a, t) ELSE Null
           h == Started("swipe-left", a, t, existing)
       IN  IF t = Missing
           THEN /\ log' = Append(log, Json(h, 400, "toUserId is required", Null, Null))
                /\ UNCHANGED handlers
           ELSE IF t \notin User
           THEN /\ log' = Append(log, Json(h, 404, "User not found", Null, Null))
                /\ UNCHANGED handlers
           ELSE IF existing # Null
           THEN /\ log' = Append(log, Json(h, 200, "Already swiped", existing, Null))
                /\ UNCHANGED handlers
           ELSE /\ handlers' = handlers (+) SetToBag({h})
                /\ UNCHANGED log

\* As SwipeLeftSave, the new document having the status of a right swipe.
SwipeLeftSaveInterested(h) ==
    /\ At(h, "swipe-left", "save")
    /\ IF Conflict(h.loggedInUser, h.toUserId)
       THEN /\ UNCHANGED ConnectionRequest
            /\ Respond(h, Json(h, 400, "duplicate key", Null, Null))
       ELSE /\ ConnectionRequest' = Inserted(h.loggedInUser, h.toUserId, "interested")
            /\ Respond(h, Json(h, 200, "Swiped left", "interested", Null))

SwipeLeftSave(h) ==
    /\ At(h, "swipe-left", "save")
    /\ IF Conflict(h.loggedInUser, h.toUserId)
       THEN /\ UNCHANGED ConnectionRequest
            /\ Respond(h, Json(h, 400, "duplicate key", Null, Null))
       ELSE /\ ConnectionRequest' = Inserted(h.loggedInUser, h.toUserId, "ignored")
            /\ Respond(h, Json(h, 200, "Swiped left", "ignored", Null))

\* ----------------------------------------------------------- swipe-right
SwipeRight(a, t) ==
    /\ Receive
    /\ UNCHANGED <<ConnectionRequest, view>>
    /\ LET existing == IF t \in User THEN findOne(a, t) ELSE Null
           h == Started("swipe-right", a, t, existing)
       IN  IF t = Missing
           THEN /\ log' = Append(log, Json(h, 400, "toUserId is required", Null, Null))
                /\ UNCHANGED handlers
           ELSE IF t \notin User
           THEN /\ log' = Append(log, Json(h, 404, "User not found", Null, Null))
                /\ UNCHANGED handlers
           ELSE /\ handlers' = handlers (+) SetToBag({h})
                /\ UNCHANGED log

\* The query of the "Already swiped" branch.
Reciprocal(h) == findOneInterested(h.toUserId, h.loggedInUser)

SwipeRightFindReciprocal(h) ==
    /\ At(h, "swipe-right", "findReciprocal")
    /\ UNCHANGED ConnectionRequest
    /\ LET reciprocal == Reciprocal(h)
       IN  Respond(h, Json(h, 200, "Already swiped", h.existing, Boolean(reciprocal)))

\* As ReciprocalInterested, querying the actor's own direction.
ReciprocalInterestedOwnDirection(h) ==
    findOneInterested(h.loggedInUser, h.toUserId)

\* As ReciprocalInterested, without `status: "interested"` in the query.
ReciprocalInterestedAnyStatus(h) == findOne(h.toUserId, h.loggedInUser)

\* The query before the insert.
ReciprocalInterested(h) == findOneInterested(h.toUserId, h.loggedInUser)

SwipeRightFindReciprocalInterested(h) ==
    /\ At(h, "swipe-right", "findReciprocalInterested")
    /\ UNCHANGED <<ConnectionRequest, log>>
    /\ Goto(h, [h EXCEPT !.reciprocalInterested = ReciprocalInterested(h),
                         !.pc = "save"])

\* As SwipeRightSave, the error of a refused save() being swallowed: the
\* handler goes on as if its document had been inserted.
SwipeRightSaveSwallowingConflict(h) ==
    /\ At(h, "swipe-right", "save")
    /\ ConnectionRequest' =
          IF Conflict(h.loggedInUser, h.toUserId) THEN ConnectionRequest
          ELSE Inserted(h.loggedInUser, h.toUserId, "interested")
    /\ IF h.reciprocalInterested # Null
       THEN /\ Goto(h, [h EXCEPT !.pc = "updateMany"])
            /\ UNCHANGED log
       ELSE Respond(h, Json(h, 200, "Connection request sent",
                            "interested", "false"))

SwipeRightSave(h) ==
    /\ At(h, "swipe-right", "save")
    /\ IF Conflict(h.loggedInUser, h.toUserId)
       THEN /\ UNCHANGED ConnectionRequest
            /\ Respond(h, Json(h, 400, "duplicate key", Null, Null))
       ELSE /\ ConnectionRequest' = Inserted(h.loggedInUser, h.toUserId, "interested")
            /\ IF h.reciprocalInterested # Null
               THEN /\ Goto(h, [h EXCEPT !.pc = "updateMany"])
                    /\ UNCHANGED log
               ELSE Respond(h, Json(h, 200, "Connection request sent",
                                    "interested", "false"))

\* As UpdateManyFilter, without toUserId in the two clauses.
UpdateManyFilterActorOnly(h) ==
    {p \in Pair : p[1] = h.loggedInUser \/ p[2] = h.loggedInUser}

\* The filter of updateMany: the documents of either direction between the
\* actor and the target.
UpdateManyFilter(h) ==
    {<<h.loggedInUser, h.toUserId>>, <<h.toUserId, h.loggedInUser>>}

\* The documents updateMany has still to write.
UpdateManyPending(h) ==
    {d \in UpdateManyFilter(h) \X (1 .. MaxRequests) :
        /\ d[2] <= Len(ConnectionRequest[d[1]])
        /\ ConnectionRequest[d[1]][d[2]] # "accepted"}

\* updateMany is called without a session or transaction: the store applies
\* $set to the matching documents one at a time, each write atomic by itself,
\* and other operations may run between two of them.
SwipeRightUpdateManyWrite(h) ==
    /\ At(h, "swipe-right", "updateMany")
    /\ UNCHANGED <<handlers, log, view, received>>
    /\ \E d \in UpdateManyPending(h) :
         ConnectionRequest' = [ConnectionRequest EXCEPT ![d[1]][d[2]] = "accepted"]

SwipeRightUpdateManyReturn(h) ==
    /\ At(h, "swipe-right", "updateMany")
    /\ UpdateManyPending(h) = {}
    /\ UNCHANGED ConnectionRequest
    /\ Respond(h, Json(h, 200, "It's a match!", "interested", "true"))

\* ------------------------------------------------------------------ feed
parsePositiveInt(value, fallback) ==
    IF value = <<>> THEN fallback
    ELSE IF value[1] <= 0 THEN fallback
    ELSE value[1]

\* limit = limit > 50 ? 50 : limit
FeedLimitCap == 50

\* As ClampLimit, without the cap.
ClampLimitWithoutCap(limit) == limit

ClampLimit(limit) == IF limit > FeedLimitCap THEN FeedLimitCap ELSE limit

\* As hideUsersFromFeed, adding only the toUserId of each document.
hideUsersFromFeedTargetsOnly(loggedInUser) ==
    {p[2] : p \in {q \in Pair :
        /\ ConnectionRequest[q] # <<>>
        /\ (q[1] = loggedInUser \/ q[2] = loggedInUser)}}

\* The identifiers on either side of the documents that involve the user.
hideUsersFromFeed(loggedInUser) ==
    UNION {{p[1], p[2]} : p \in {q \in Pair :
        /\ ConnectionRequest[q] # <<>>
        /\ (q[1] = loggedInUser \/ q[2] = loggedInUser)}}

\* The users filterQuery selects.  eligible is the set of the users whose
\* profile is complete and passes the optional filters of the request (skills,
\* experience, role, availability, location): the profiles are not written by
\* these routes, so any subset of User can be that set.
filterQuery(loggedInUser, eligible) ==
    {u \in eligible :
        /\ u \notin hideUsersFromFeed(loggedInUser)
        /\ u # loggedInUser}

\* The users of a set in the order the store returns them (by identifier).
RECURSIVE InOrder(_)
InOrder(S) ==
    IF S = {} THEN <<>>
    ELSE LET m == CHOOSE x \in S : \A y \in S : x <= y
         IN  <<m>> \o InOrder(S \ {m})

\* .skip(skip).limit(n) on a sequence of rows.
SkipLimit(rows, skip, n) ==
    SubSeq(rows, skip + 1, IF skip + n < Len(rows) THEN skip + n ELSE Len(rows))

\* The page of GET /feed cut from rows, the users that match filterQuery in
\* the order of the store.
Paginate(rows, pageParam, limitParam) ==
    LET page == parsePositiveInt(pageParam, 1)
        limit == ClampLimit(parsePositiveInt(limitParam, 10))
        skip == (page - 1) * limit
        users == SkipLimit(rows, skip, limit + 1)
        hasMore == Len(users) > limit
        sliced == IF hasMore THEN SubSeq(users, 1, limit) ELSE users
    IN  [data |-> sliced, page |-> page, limit |-> limit, hasMore |-> hasMore]

\* The response of GET /feed.
Feed(loggedInUser, eligible, pageParam, limitParam) ==
    LET r == Paginate(InOrder(filterQuery(loggedInUser, eligible)),
                      pageParam, limitParam)
    IN  [route |-> "feed", loggedInUser |-> loggedInUser, data |-> r.data,
         page |-> r.page, limit |-> r.limit, hasMore |-> r.hasMore]

\* GET /feed: ConnectionRequest.find and then User.find are awaited; User is
\* never written, so the second query is taken in the step of the first.
GetFeed(loggedInUser, eligible, pageParam, limitParam) ==
    /\ Receive
    /\ view' = Feed(loggedInUser, eligible, pageParam, limitParam)
    /\ UNCHANGED <<ConnectionRequest, handlers, log>>

\* ----------------------------------------------------------- connections
\* As ConnectionFilter, without the status in the branch on fromUserId.
ConnectionFilterFromAnyStatus(loggedInUser, p, status) ==
    \/ p[2] = loggedInUser /\ status = "accepted"
    \/ p[1] = loggedInUser

\* The filter of GET /connections on a document p[1] -> p[2] with a status.
ConnectionFilter(loggedInUser, p, status) ==
    \/ p[2] = loggedInUser /\ status = "accepted"
    \/ p[1] = loggedInUser /\ status = "accepted"

\* ConnectionRequest.find of GET /connections over the documents of pairs: one
\* entry <<from, to>> for each document the filter selects, pair after pair.
RECURSIVE FindConnections(_, _)
FindConnections(loggedInUser, pairs) ==
    IF pairs = {} THEN <<>>
    ELSE LET p == CHOOSE x \in pairs : \A y \in pairs :
                      x[1] < y[1] \/ (x[1] = y[1] /\ x[2] <= y[2])
             hits == SelectSeq(ConnectionRequest[p],
                        LAMBDA status : ConnectionFilter(loggedInUser, p, status))
         IN  [i \in 1 .. Len(hits) |-> p]
             \o FindConnections(loggedInUser, pairs \ {p})

\* data of GET /connections: of each row found, the party that is not the user.
Connections(loggedInUser) ==
    LET rows == FindConnections(loggedInUser, Pair)
    IN  [i \in 1 .. Len(rows) |->
            IF rows[i][1] = loggedInUser THEN rows[i][2] ELSE rows[i][1]]

\* GET /connections: one query on ConnectionRequest, then the response.
GetConnections(loggedInUser) ==
    /\ Receive
    /\ view' = [route |-> "connections", loggedInUser |-> loggedInUser,
                data |-> Connections(loggedInUser),
                page |-> 0, limit |-> 0, hasMore |-> FALSE]
    /\ UNCHANGED <<ConnectionRequest, handlers, log>>

\* ------------------------------------------------------------------ Next
Next ==
    \/ \E a \in User, t \in ToUserIds : SwipeLeft(a, t)
    \/ \E a \in User, t \in ToUserIds : SwipeRight(a, t)
    \/ \E h \in InFlight : SwipeLeftSave(h)
    \/ \E h \in InFlight : SwipeRightFindReciprocal(h)
    \/ \E h \in InFlight : SwipeRightFindReciprocalInterested(h)
    \/ \E h \in InFlight : SwipeRightSave(h)
    \/ \E h \in InFlight : SwipeRightUpdateManyWrite(h)
    \/ \E h \in InFlight : SwipeRightUpdateManyReturn(h)

Spec == Init /\ [][Next]_vars

\* The same handlers when no two of them overlap: a request is taken up only
\* after the handler before it has sent its response.
NoOverlap == BagCardinality(handlers') <= 1

SeqNext ==
    \/ \E a \in User, t \in ToUserIds : SwipeLeft(a, t) /\ NoOverlap
    \/ \E a \in User, t \in ToUserIds : SwipeRight(a, t) /\ NoOverlap
    \/ \E h \in InFlight : SwipeLeftSave(h)
    \/ \E h \in InFlight : SwipeRightFindReciprocal(h)
    \/ \E h \in InFlight : SwipeRightFindReciprocalInterested(h)
    \/ \E h \in InFlight : SwipeRightSave(h)
    \/ \E h \in InFlight : SwipeRightUpdateManyWrite(h)
    \/ \E h \in InFlight : SwipeRightUpdateManyReturn(h)

SpecSeq == Init /\ [][SeqNext]_vars

\* The swipe handlers together with the query views.
ViewsNext ==
    \/ Next
    \/ \E a \in User, eligible \in SUBSET User :
         \E pageParam \in QueryValues, limitParam \in QueryValues :
            GetFeed(a, eligible, pageParam, limitParam)
    \/ \E a \in User : GetConnections(a)

\* ------------------------------------------------------------ pagination
\* GET /feed over a population larger than User: the request of one user for
\* whom filterQuery selects `candidates` users (identifiers 1 .. candidates),
\* and the page the handler cuts from them.  view holds the request until it
\* is answered, and then the response together with the request.
CandidateCounts == 0 .. MaxCandidates
PageParams == QueryValues \cup {<<-1>>}
LimitParams == QueryValues \cup {<<n>> : n \in {-1, 10, 49, 50, 51, 10000}}

FeedRequest(candidates, pageParam, limitParam) ==
    [route |-> "GET /feed", loggedInUser |-> 1, candidates |-> candidates,
     pageParam |-> pageParam, limitParam |-> limitParam,
     data |-> <<>>, page |-> 0, limit |-> 0, hasMore |-> FALSE]

InitPage ==
    /\ ConnectionRequest = [p \in Pair |-> <<>>]
    /\ handlers = EmptyBag
    /\ log = <<>>
    /\ received = 0
    /\ view \in {FeedRequest(n, pageParam, limitParam) :
                   n \in CandidateCounts, pageParam \in PageParams,
                   limitParam \in LimitParams}

GetFeedPage ==
    /\ view.route = "GET /feed"
    /\ LET r == Paginate([i \in 1 .. view.candidates |-> i],
                         view.pageParam, view.limitParam)
       IN  view' = [view EXCEPT !.route = "feed", !.data = r.data,
                                !.page = r.page, !.limit = r.limit,
                                !.hasMore = r.hasMore]
    /\ received' = received + 1
    /\ UNCHANGED <<ConnectionRequest, handlers, log>>

PageNext == GetFeedPage

SpecPage == InitPage /\ [][PageNext]_vars

SpecViews == Init /\ [][ViewsNext]_vars

\* ---------------------------------------------------------------- claims
Idle == handlers = EmptyBag

\* The documents from -> to, one status each.
Rows(from, to) == ConnectionRequest[<<from, to>>]

Accepted(from, to) == Rows(from, to) = <<"accepted">>

\* The responses to the swipes between a and b, either direction, in order.
Between(a, b) ==
    SelectSeq(log, LAMBDA e : {e.loggedInUser, e.toUserId} = {a, b})

\* No handler in flight is a swipe between a and b.
Quiet(a, b) ==
    \A h \in InFlight : {h.loggedInUser, h.toUserId} # {a, b}

IsRight(e, a, b) ==
    e.route = "swipe-right" /\ e.loggedInUser = a /\ e.toUserId = b

\* C1: handlers not overlapping, a # b, no records between a and b before:
\* the swipe-right of a on b answers matched=false and leaves the one record
\* a->b interested; the swipe-right of b on a that follows answers
\* matched=true, and both records are then accepted.
C1_SequentialMutualRightSwipes ==
    \A a \in User : \A b \in User \ {a} :
        LET s == Between(a, b) IN
        /\ (Len(s) >= 1 /\ IsRight(s[1], a, b)) =>
               /\ s[1].status = 200
               /\ s[1].matched = "false"
               /\ s[1].data = "interested"
               /\ (Len(s) = 1 /\ Quiet(a, b)) =>
                      /\ Rows(a, b) = <<"interested">>
                      /\ Rows(b, a) = <<>>
        /\ (Len(s) >= 2 /\ IsRight(s[1], a, b) /\ IsRight(s[2], b, a)) =>
               /\ s[2].status = 200
               /\ s[2].matched = "true"
               /\ Accepted(a, b)
               /\ Accepted(b, a)

C1_Witness ==
    \E a \in User : \E b \in User \ {a} :
        /\ Len(Between(a, b)) = 2
        /\ IsRight(Between(a, b)[1], a, b)
        /\ IsRight(Between(a, b)[2], b, a)
        /\ Between(a, b)[2].message = "It's a match!"
        /\ Idle

\* C2: when a and b have each swiped right on the other (each has a record
\* that a right swipe created) and both handlers have finished, both records
\* are accepted, however the two handlers were interleaved.
C2_ConcurrentMutualRightSwipesMatch ==
    \A a \in User : \A b \in User \ {a} :
        (/\ Quiet(a, b)
         /\ Rows(a, b) # <<>> /\ Head(Rows(a, b)) # "ignored"
         /\ Rows(b, a) # <<>> /\ Head(Rows(b, a)) # "ignored")
        => (Accepted(a, b) /\ Accepted(b, a))

\* C3: at most one document for each ordered pair (fromUserId, toUserId).
C3_OneRecordPerOrderedPair ==
    \A p \in Pair : Len(ConnectionRequest[p]) <= 1

\* Two swipes of one actor on one target both passed the check for an existing
\* record, and the insert of the second was refused.
C3_Witness ==
    \E i \in 1 .. Len(log) :
        /\ log[i].message = "duplicate key"
        /\ Len(Rows(log[i].loggedInUser, log[i].toUserId)) = 1

\* C4: in every state a reader can observe, a->b is accepted if and only if
\* b->a is accepted.
C4_AcceptedBothOrNeither ==
    \A a \in User, b \in User :
        ("accepted" \in {Rows(a, b)[i] : i \in 1 .. Len(Rows(a, b))})
        <=> ("accepted" \in {Rows(b, a)[i] : i \in 1 .. Len(Rows(b, a))})

\* The step is the arrival of the request `route` of a on t.
Arrives(route, a, t) ==
    /\ received' = received + 1
    /\ \/ /\ Len(log') = Len(log) + 1
          /\ log'[Len(log')].route = route
          /\ log'[Len(log')].loggedInUser = a
          /\ log'[Len(log')].toUserId = t
       \/ \E h \in BagToSet(handlers') :
             /\ CopiesIn(h, handlers') = CopiesIn(h, handlers) + 1
             /\ h.route = route /\ h.loggedInUser = a /\ h.toUserId = t

\* The step is taken by the handler h, which sends its response in it.
Answers(h) ==
    /\ CopiesIn(h, handlers') = CopiesIn(h, handlers) - 1
    /\ BagCardinality(handlers') = BagCardinality(handlers) - 1
    /\ Len(log') = Len(log) + 1
    /\ log'[Len(log')].route = h.route
    /\ log'[Len(log')].loggedInUser = h.loggedInUser
    /\ log'[Len(log')].toUserId = h.toUserId

\* C5: a swipe of a on t that finds a record a->t writes nothing and answers
\* "Already swiped" with the record it found: the swipe-left at once, the
\* swipe-right after its query for the reciprocal record.
C5_RepeatedSwipeIsIdempotent ==
    [][/\ \A a \in User, t \in User :
            (Rows(a, t) # <<>> /\ Arrives("swipe-left", a, t)) =>
                /\ ConnectionRequest' = ConnectionRequest
                /\ UNCHANGED handlers
                /\ log'[Len(log')].status = 200
                /\ log'[Len(log')].message = "Already swiped"
                /\ log'[Len(log')].data = Head(Rows(a, t))
       /\ \A a \in User, t \in User :
            (Rows(a, t) # <<>> /\ Arrives("swipe-right", a, t)) =>
                /\ ConnectionRequest' = ConnectionRequest
                /\ \E h \in BagToSet(handlers') :
                      /\ handlers' = handlers (+) SetToBag({h})
                      /\ h.pc = "findReciprocal"
                      /\ h.existing = Head(Rows(a, t))
       /\ \A h \in InFlight :
            (h.pc = "findReciprocal" /\ Answers(h)) =>
                /\ ConnectionRequest' = ConnectionRequest
                /\ log'[Len(log')].status = 200
                /\ log'[Len(log')].message = "Already swiped"
                /\ log'[Len(log')].data = h.existing
      ]_vars

\* A second swipe-right and a second swipe-left have been answered
\* "Already swiped".
C5_Witness ==
    /\ \E i \in 1 .. Len(log) :
          log[i].route = "swipe-right" /\ log[i].message = "Already swiped"
    /\ \E i \in 1 .. Len(log) :
          log[i].route = "swipe-left" /\ log[i].message = "Already swiped"

\* C6: a swipe-right of a on b answered while a->b and b->a are both accepted
\* reports matched=true.
C6_RepeatedSwipeReportsMatch ==
    [][\A h \in InFlight :
         (/\ h.route = "swipe-right"
          /\ Accepted(h.loggedInUser, h.toUserId)
          /\ Accepted(h.toUserId, h.loggedInUser)
          /\ Answers(h))
         => log'[Len(log')].matched = "true"
      ]_vars

\* C8: no step removes a document, and the only change a step makes to the
\* status of a document is interested -> accepted.
C8_StatusOnlyForward ==
    [][\A p \in Pair :
         /\ Len(ConnectionRequest'[p]) >= Len(ConnectionRequest[p])
         /\ \A i \in 1 .. Len(ConnectionRequest[p]) :
               \/ ConnectionRequest'[p][i] = ConnectionRequest[p][i]
               \/ /\ ConnectionRequest[p][i] = "interested"
                  /\ ConnectionRequest'[p][i] = "accepted"
      ]_vars

\* A match has been formed while another record is ignored.
C8_Witness ==
    /\ \E a \in User, b \in User : a # b /\ Accepted(a, b) /\ Accepted(b, a)
    /\ \E p \in Pair : ConnectionRequest[p] = <<"ignored">>

\* C9: no step changes the status of a document that is ignored.
C9_IgnoredNeverAccepted ==
    [][\A p \in Pair : \A i \in 1 .. Len(ConnectionRequest[p]) :
         ConnectionRequest[p][i] = "ignored" =>
             /\ i <= Len(ConnectionRequest'[p])
             /\ ConnectionRequest'[p][i] = "ignored"
      ]_vars

\* a sent a left and a right swipe on b at once while b->a was interested:
\* the swipe-right has seen the reciprocal record and is about to insert,
\* and the swipe-left has already written a->b ignored.
C9_Witness ==
    \E h \in InFlight :
        /\ h.route = "swipe-right"
        /\ h.pc = "save"
        /\ h.reciprocalInterested # Null
        /\ h.loggedInUser # h.toUserId
        /\ Rows(h.loggedInUser, h.toUserId) = <<"ignored">>
        /\ Rows(h.toUserId, h.loggedInUser) = <<"interested">>

\* C10: no document has fromUserId equal to toUserId.
C10_NoSelfRequests ==
    \A a \in User : ConnectionRequest[<<a, a>>] = <<>>

\* A record between a and b, in either direction, with any status.
RecordBetween(a, b) == Rows(a, b) # <<>> \/ Rows(b, a) # <<>>

\* The users that some page of the feed of a shows, over every choice of
\* filters, page and limit.
ShownInFeed(a) ==
    UNION {LET data == Feed(a, q[1], q[2], q[3]).data
           IN  {data[i] : i \in 1 .. Len(data)} :
           q \in (SUBSET User) \X QueryValues \X QueryValues}

\* C7: in every state, when a record exists between a and b, no page of the
\* feed of a shows b and no page of the feed of b shows a; and no step ends
\* the existence of a record between a and b.
C7_FeedExclusionSymmetricPermanent ==
    /\ [](\A a \in User : \A b \in User \ {a} :
            RecordBetween(a, b) =>
                (b \notin ShownInFeed(a) /\ a \notin ShownInFeed(b)))
    /\ [][\A a \in User : \A b \in User \ {a} :
            RecordBetween(a, b) => RecordBetween(a, b)']_vars

\* b has swiped on a, a has not swiped on b, a has asked for the feed, and
\* the page returned does not show b.
C7_Witness ==
    \E a \in User : \E b \in User \ {a} :
        /\ Rows(b, a) # <<>>
        /\ Rows(a, b) = <<>>
        /\ view.route = "feed"
        /\ view.loggedInUser = a
        /\ b \notin {view.data[i] : i \in 1 .. Len(view.data)}
        /\ received = 2
        /\ Len(log) = 1

\* C11: a swipe without toUserId is answered 400 and a swipe whose toUserId
\* names no user is answered 404, in the step in which it arrives, and that
\* step leaves the ledger as it was and starts no handler.
C11_RejectedSwipesWriteNothing ==
    [][\A route \in {"swipe-left", "swipe-right"} : \A a \in User :
         /\ Arrives(route, a, Missing) =>
               /\ log' = Append(log, log'[Len(log')])
               /\ log'[Len(log')].status = 400
               /\ ConnectionRequest' = ConnectionRequest
               /\ handlers' = handlers
         /\ Arrives(route, a, NoSuchUser) =>
               /\ log' = Append(log, log'[Len(log')])
               /\ log'[Len(log')].status = 404
               /\ ConnectionRequest' = ConnectionRequest
               /\ handlers' = handlers
      ]_vars

\* Both kinds of rejection have happened on both routes while the ledger holds
\* a record.
C11_Witness ==
    /\ \E p \in Pair : ConnectionRequest[p] # <<>>
    /\ \E i \in 1 .. Len(log) :
          log[i].route = "swipe-left" /\ log[i].toUserId = Missing
                                     /\ log[i].status = 400
    /\ \E i \in 1 .. Len(log) :
          log[i].route = "swipe-right" /\ log[i].toUserId = NoSuchUser
                                      /\ log[i].status = 404

\* C12: a handler whose insert the store refuses with Conflict answers as the
\* "Already swiped" branch does: status 200, message "Already swiped", the
\* record that exists as data.
C12_ConflictNeverSurfaced ==
    [][\A h \in InFlight :
         (/\ h.pc = "save"
          /\ Conflict(h.loggedInUser, h.toUserId)
          /\ Answers(h))
         => /\ log'[Len(log')].status = 200
            /\ log'[Len(log')].message = "Already swiped"
            /\ log'[Len(log')].data = findOne(h.loggedInUser, h.toUserId)
      ]_vars

\* C13: the limit of a feed page is the requested limit (10 when the parameter
\* is absent, not a number or not positive) capped at 50; the page holds at
\* most that many users; hasMore is true exactly when the candidates are more
\* than page * limit; limit 50 over 51 or more candidates gives 50 users and
\* hasMore on the first page; limit 10000 gives the page that limit 50 gives.
C13_FeedPagination ==
    view.route = "feed" /\ "candidates" \in DOMAIN view =>
        LET requested == IF view.limitParam = <<>> THEN 10
                         ELSE IF view.limitParam[1] <= 0 THEN 10
                         ELSE view.limitParam[1]
            effective == IF requested < 50 THEN requested ELSE 50
            rows == [i \in 1 .. view.candidates |-> i]
            at50 == Paginate(rows, view.pageParam, <<50>>)
        IN  /\ view.limit = effective
            /\ Len(view.data) <= effective
            /\ view.hasMore <=> view.candidates > view.page * view.limit
            /\ (requested = 50 /\ view.page = 1 /\ view.candidates >= 51)
                  => Len(view.data) = 50 /\ view.hasMore
            /\ view.limitParam = <<10000>>
                  => /\ view.data = at50.data
                     /\ view.page = at50.page
                     /\ view.limit = at50.limit
                     /\ view.hasMore = at50.hasMore

\* A request with limit 10000 over more than 50 candidates was answered with
\* 50 users and hasMore.
C13_Witness ==
    /\ view.route = "feed" /\ "candidates" \in DOMAIN view
    /\ view.limitParam = <<10000>>
    /\ view.candidates > 50
    /\ Len(view.data) = 50
    /\ view.hasMore

\* The users in the data of a connections response.
Listed(data) == {data[i] : i \in 1 .. Len(data)}

C18_PartnerListedOnce ==
    [][(view' # view /\ view'.route = "connections") =>
         \A b \in User :
            (Accepted(view'.loggedInUser, b) /\ Accepted(b, view'.loggedInUser))
            => Cardinality({i \in 1 .. Len(view'.data) : view'.data[i] = b}) = 1
      ]_vars

\* The runs of updateMany on the pair of a and b: the "It's a match!"
\* responses sent and the handlers now in updateMany, either direction.
Flips(a, b) ==
    {i \in 1 .. Len(log) :
        /\ {log[i].loggedInUser, log[i].toUserId} = {a, b}
        /\ log[i].message = "It's a match!"}
    \cup {d \in InFlight \X (1 .. MaxRequests) :
        /\ {d[1].loggedInUser, d[1].toUserId} = {a, b}
        /\ d[1].pc = "updateMany"
        /\ d[2] <= CopiesIn(d[1], handlers)}

\* C15: under every interleaving the match flip (updateMany) runs at most
\* once for an unordered pair of users.
C15_FlipAtMostOncePerPair ==
    \A a \in User : \A b \in User : Cardinality(Flips(a, b)) <= 1

\* a submitted its right swipe on b twice while b->a was interested: one
\* handler matched, the insert of the other was refused.
C15_Witness ==
    \E a \in User : \E b \in User \ {a} :
        /\ Cardinality(Flips(a, b)) = 1
        /\ \E i \in 1 .. Len(log) : IsRight(log[i], a, b)
                                    /\ log[i].message = "It's a match!"
        /\ \E i \in 1 .. Len(log) : IsRight(log[i], a, b)
                                    /\ log[i].status = 400

\* C16: the insert of a left swipe of a on b, made when no record a->b
\* exists, leaves a->b as one record with status ignored and every other
\* record, b->a among them, as it was.
C16_SwipeLeftWritesOneRecord ==
    [][\A h \in InFlight :
         (/\ h.route = "swipe-left"
          /\ h.pc = "save"
          /\ Rows(h.loggedInUser, h.toUserId) = <<>>
          /\ Answers(h))
         => /\ log'[Len(log')].message = "Swiped left"
            /\ ConnectionRequest' =
                  [ConnectionRequest EXCEPT
                      ![<<h.loggedInUser, h.toUserId>>] = <<"ignored">>]
      ]_vars

\* a swiped left on b after b had swiped right on a: a->b is ignored and
\* b->a is still interested.
C16_Witness ==
    \E a \in User : \E b \in User \ {a} :
        /\ Rows(a, b) = <<"ignored">>
        /\ Rows(b, a) = <<"interested">>
        /\ \E i \in 1 .. Len(log) : \E j \in 1 .. Len(log) :
              /\ i < j
              /\ IsRight(log[i], b, a)
              /\ log[i].message = "Connection request sent"
              /\ log[j].route = "swipe-left"
              /\ log[j].loggedInUser = a
              /\ log[j].toUserId = b
              /\ log[j].message = "Swiped left"

\* C17: when a response to a swipe-right of a on b carries matched = true,
\* a->b and b->a are both accepted.
C17_MatchedAgreesWithLedger ==
    [][(/\ Len(log') = Len(log) + 1
        /\ log'[Len(log')].route = "swipe-right"
        /\ log'[Len(log')].matched = "true")
       => LET e == log'[Len(log')]
          IN  /\ ConnectionRequest'[<<e.loggedInUser, e.toUserId>>] = <<"accepted">>
              /\ ConnectionRequest'[<<e.toUserId, e.loggedInUser>>] = <<"accepted">>
      ]_vars
====
